---- MODULE Spec2Model ----
(* State-machine model of the Sitronix touch controller driver            *)
(* (src/src/lib.rs): the TouchIC handle, the I2C bus it owns seen as the  *)
(* list of write_read transactions each operation issues, and the value   *)
(* each public operation returns.                                         *)
EXTENDS Integers, Sequences, FiniteSets, TLC

VARIABLES addr, ctor, op, args, pc, bus, result

vars == <<addr, ctor, op, args, pc, bus, result>>

-----------------------------------------------------------------------------
(* Bounds                                                                  *)

\* largest number of STATUS reads that answer "busy" during one init()
MaxPolls == 3

-----------------------------------------------------------------------------
(* Machine arithmetic                                                      *)

U8 == 256
U16 == 65536

RECURSIVE BitAnd(_, _)
BitAnd(a, b) ==
    IF a = 0 \/ b = 0 THEN 0
    ELSE (a % 2) * (b % 2) + 2 * BitAnd(a \div 2, b \div 2)

RECURSIVE BitOr(_, _)
BitOr(a, b) ==
    IF a = 0 THEN b
    ELSE IF b = 0 THEN a
    ELSE (IF a % 2 = 1 \/ b % 2 = 1 THEN 1 ELSE 0) + 2 * BitOr(a \div 2, b \div 2)

\* u16 << n
Shl16(a, n) == (a * (2 ^ n)) % U16

\* u8 >> n
Shr8(a, n) == a \div (2 ^ n)

-----------------------------------------------------------------------------
(* Constants of the driver                                                 *)

DEFAULT_ADDR == 85

STATUS == 1
CONTACT_COUNT_MAX == 63
MISC_INFO == 240
XY_RESOLUTION_H == 4
SENSING_COUNTER_L == 7
ADVANCED_TOUCH_INFO == 16

\* enum GestureType: variant name |-> discriminant
GestureType ==
    [None |-> 0, DoubleTab |-> 1, ZoomIn |-> 2, ZoomOut |-> 3,
     SlideLeftToRight |-> 4, SlideRightToLeft |-> 5, SlideTopToBottom |-> 6,
     SlideBottomToTop |-> 7, Palm |-> 8, SingleTap |-> 9, LongPress |-> 10,
     EndOfLongPress |-> 11, Drag |-> 12]

\* the gesture table by code 0..12
GestureTable ==
    <<"None", "DoubleTab", "ZoomIn", "ZoomOut", "SlideLeftToRight",
      "SlideRightToLeft", "SlideTopToBottom", "SlideBottomToTop", "Palm",
      "SingleTap", "LongPress", "EndOfLongPress", "Drag">>

-----------------------------------------------------------------------------
(* Values                                                                  *)

\* Result<T, I2C::Error>
Ok(v) == [kind |-> "Ok", val |-> v, err |-> "none"]
Err(e) == [kind |-> "Err", val |-> <<>>, err |-> e]
\* unreachable!() was executed: the call never returns
Panicked == [kind |-> "panic", val |-> <<>>, err |-> "none"]
\* the call has not returned yet
Pending == [kind |-> "pending", val |-> <<>>, err |-> "none"]

\* Option<T>
None == <<>>
Some(v) == <<v>>

\* ()
Unit == <<>>

\* what the bus answers to one write_read: the bytes read, or a bus error
Answer(data) == [ok |-> TRUE, data |-> data, err |-> "none"]
Failure(e) == [ok |-> FALSE, data |-> <<>>, err |-> e]
NoAnswer == Failure("unused")

-----------------------------------------------------------------------------
(* Inputs: what the device may answer                                      *)

BusErrors == {"NoAcknowledge", "ArbitrationLoss"}
Failures == {Failure(e) : e \in BusErrors}

AddrInputs == {56, 255}

NthInputs == 0 .. 255

PointByte0 == {0, 15, 112, 127, 128, 143, 155, 211, 240, 255}
PointTail == {<<42, 119, 0>>, <<255, 0, 255>>, <<60, 159, 85>>}
PointRecords == {<<b>> \o t : b \in PointByte0, t \in PointTail}

GestureBytes == 0 .. 255

StatusBusy == {16, 239}
StatusReady == {0, 15}
StatusBytes == StatusBusy \cup StatusReady

CounterRecords == {<<1, 44>>, <<0, 0>>, <<255, 255>>, <<44, 1>>}

MaxContactBytes == {0, 10, 255}
MiscBytes == {0, 127, 128, 255}
ResolutionRecords == {<<27, 60, 159>>, <<155, 60, 159>>, <<255, 255, 255>>, <<0, 0, 0>>, <<211, 42, 119>>}

Answers(records) == {Answer(d) : d \in records} \cup Failures
ByteAnswers(bytes) == {Answer(<<b>>) : b \in bytes} \cup Failures

-----------------------------------------------------------------------------
(* Pure parts of the driver                                                *)

write_read_default_addr(a, wr, n, r) ==
    [addr |-> DEFAULT_ADDR, wr |-> wr, len |-> n, ok |-> r.ok, data |-> r.data, err |-> r.err]

\* one transaction on the bus, as issued by i2c.write_read(self.addr, &[reg], &mut buf)
write_read(a, wr, n, r) ==
    [addr |-> a, wr |-> wr, len |-> n, ok |-> r.ok, data |-> r.data, err |-> r.err]

\* read_reg8: the transaction it issues
read_reg8(reg, r) == write_read(addr, <<reg>>, 1, r)

PointOutOfRangeOffByOne(nth) == nth > 10

\* nth > 9
PointOutOfRange(nth) == nth > 9

\* 0x12 + 4 * nth
PointStartReg(nth) == (18 + 4 * nth) % U8

PointEmptyWholeByte(buf) == buf[1] = 0

\* buf[0] >> 7 == 0
PointEmpty(buf) == Shr8(buf[1], 7) = 0

PointXFieldShift(buf) == BitOr(Shl16(Shr8(BitAnd(buf[1], 112), 4), 4), buf[2])

PointX(buf) == BitOr(Shl16(BitAnd(buf[1], 112), 4), buf[2])
PointY(buf) == BitOr(Shl16(BitAnd(buf[1], 15), 8), buf[3])

PointResult(buf) ==
    IF PointEmpty(buf) THEN Ok(None)
    ELSE Ok(Some([x |-> PointX(buf), y |-> PointY(buf)]))

from_u8_wide_mask(raw) ==
    LET n == BitAnd(raw, 31) IN
    IF n <= 12 THEN GestureTable[n + 1] ELSE "unreachable"

\* GestureType::from_u8
from_u8(raw) ==
    LET n == BitAnd(raw, 15) IN
    CASE n = 0 -> "None"
      [] n = 1 -> "DoubleTab"
      [] n = 2 -> "ZoomIn"
      [] n = 3 -> "ZoomOut"
      [] n = 4 -> "SlideLeftToRight"
      [] n = 5 -> "SlideRightToLeft"
      [] n = 6 -> "SlideTopToBottom"
      [] n = 7 -> "SlideBottomToTop"
      [] n = 8 -> "Palm"
      [] n = 9 -> "SingleTap"
      [] n = 10 -> "LongPress"
      [] n = 11 -> "EndOfLongPress"
      [] n = 12 -> "Drag"
      [] OTHER -> "unreachable"

GestureProximity(raw) == BitAnd(raw, 64) # 0
GestureWater(raw) == BitAnd(raw, 32) # 0

GestureResult(raw) ==
    IF from_u8(raw) = "unreachable" THEN Panicked
    ELSE Ok([gesture_type |-> from_u8(raw),
             proximity |-> GestureProximity(raw),
             water |-> GestureWater(raw)])

\* u16::from_be_bytes
from_be_bytes(buf) == buf[1] * 256 + buf[2]

ResXWholeNibble(buf) == BitOr(Shl16(BitAnd(buf[1], 240), 4), buf[2])

ResX(buf) == BitOr(Shl16(BitAnd(buf[1], 112), 4), buf[2])
ResY(buf) == BitOr(Shl16(BitAnd(buf[1], 15), 8), buf[3])
SmartWakeUp(misc_info) == BitAnd(misc_info, 128) # 0

CapabilitiesResult(max_contacts, misc_info, buf) ==
    Ok([max_touches |-> max_contacts,
        max_x |-> ResX(buf),
        max_y |-> ResY(buf),
        smart_wake_up |-> SmartWakeUp(misc_info)])

StatusBusyLowNibble(status) == BitAnd(status, 15) # 0

StatusBusyAnyBit(status) == status # 0

\* status & 0xf0 != 0
StatusBusyTest(status) == BitAnd(status, 240) # 0

-----------------------------------------------------------------------------
(* Construction                                                            *)

new(a) ==
    /\ addr = a
    /\ op = "none"
    /\ args = <<>>
    /\ pc = "idle"
    /\ bus = <<>>
    /\ result = Pending

new_default == new(DEFAULT_ADDR)

Init ==
    \/ ctor = "new" /\ \E a \in AddrInputs : new(a)
    \/ ctor = "new_default" /\ new_default

-----------------------------------------------------------------------------
(* Operations                                                              *)

\* init(): the first STATUS read of wait_normal_status and the loop test
init(r) ==
    /\ pc = "idle"
    /\ op' = "init"
    /\ args' = <<>>
    /\ bus' = <<read_reg8(STATUS, r)>>
    /\ IF ~r.ok THEN pc' = "idle" /\ result' = Err(r.err)
       ELSE IF StatusBusyTest(r.data[1]) THEN pc' = "polling" /\ result' = Pending
       ELSE pc' = "idle" /\ result' = Ok(Unit)
    /\ UNCHANGED <<addr, ctor>>

wait_normal_status_retry(r) ==
    /\ pc = "polling"
    /\ Len(bus) < MaxPolls \/ (r.ok /\ ~StatusBusyTest(r.data[1]))
    /\ bus' = Append(bus, read_reg8(STATUS, r))
    /\ IF ~r.ok \/ StatusBusyTest(r.data[1]) THEN pc' = "polling" /\ result' = Pending
       ELSE pc' = "idle" /\ result' = Ok(Unit)
    /\ UNCHANGED <<addr, ctor, op, args>>

\* one iteration of the while loop of wait_normal_status
wait_normal_status(r) ==
    /\ pc = "polling"
    /\ Len(bus) < MaxPolls \/ ~(r.ok /\ StatusBusyTest(r.data[1]))
    /\ bus' = Append(bus, read_reg8(STATUS, r))
    /\ IF ~r.ok THEN pc' = "idle" /\ result' = Err(r.err)
       ELSE IF StatusBusyTest(r.data[1]) THEN pc' = "polling" /\ result' = Pending
       ELSE pc' = "idle" /\ result' = Ok(Unit)
    /\ UNCHANGED <<addr, ctor, op, args>>

get_gesture_info(r) ==
    /\ pc = "idle"
    /\ op' = "get_gesture_info"
    /\ args' = <<>>
    /\ bus' = <<read_reg8(ADVANCED_TOUCH_INFO, r)>>
    /\ result' = IF ~r.ok THEN Err(r.err) ELSE GestureResult(r.data[1])
    /\ pc' = IF result'.kind = "panic" THEN "panicked" ELSE "idle"
    /\ UNCHANGED <<addr, ctor>>

get_point(nth, r) ==
    /\ pc = "idle"
    /\ op' = "get_point"
    /\ args' = <<nth>>
    /\ IF PointOutOfRange(nth)
       THEN bus' = <<>> /\ result' = Ok(None)
       ELSE /\ bus' = <<write_read(addr, <<PointStartReg(nth)>>, 4, r)>>
            /\ result' = IF ~r.ok THEN Err(r.err) ELSE PointResult(r.data)
    /\ pc' = "idle"
    /\ UNCHANGED <<addr, ctor>>

get_point0(r) == get_point(0, r)

get_point1(r) == get_point(1, r)

get_sensor_count(r) ==
    /\ pc = "idle"
    /\ op' = "get_sensor_count"
    /\ args' = <<>>
    /\ bus' = <<write_read(addr, <<SENSING_COUNTER_L>>, 2, r)>>
    /\ result' = IF ~r.ok THEN Err(r.err) ELSE Ok(from_be_bytes(r.data))
    /\ pc' = "idle"
    /\ UNCHANGED <<addr, ctor>>

get_capabilities(r1, r2, r3) ==
    /\ pc = "idle"
    /\ op' = "get_capabilities"
    /\ args' = <<>>
    /\ IF ~r1.ok
       THEN /\ bus' = <<read_reg8(CONTACT_COUNT_MAX, r1)>>
            /\ result' = Err(r1.err)
       ELSE IF ~r2.ok
       THEN /\ bus' = <<read_reg8(CONTACT_COUNT_MAX, r1), read_reg8(MISC_INFO, r2)>>
            /\ result' = Err(r2.err)
       ELSE /\ bus' = <<read_reg8(CONTACT_COUNT_MAX, r1), read_reg8(MISC_INFO, r2),
                        write_read(addr, <<XY_RESOLUTION_H>>, 3, r3)>>
            /\ result' = IF ~r3.ok THEN Err(r3.err)
                         ELSE CapabilitiesResult(r1.data[1], r2.data[1], r3.data)
    /\ pc' = "idle"
    /\ UNCHANGED <<addr, ctor>>

-----------------------------------------------------------------------------

Next ==
    \/ \E r \in ByteAnswers(StatusBytes) : init(r)
    \/ \E r \in ByteAnswers(StatusBytes) : wait_normal_status(r)
    \/ \E r \in ByteAnswers(GestureBytes) : get_gesture_info(r)
    \/ \E nth \in NthInputs :
          IF PointOutOfRange(nth) THEN get_point(nth, NoAnswer)
          ELSE \E r \in Answers(PointRecords) : get_point(nth, r)
    \/ \E r \in Answers(PointRecords) : get_point0(r)
    \/ \E r \in Answers(PointRecords) : get_point1(r)
    \/ \E r \in Answers(CounterRecords) : get_sensor_count(r)
    \/ \E r1 \in ByteAnswers(MaxContactBytes) :
          IF ~r1.ok THEN get_capabilities(r1, NoAnswer, NoAnswer)
          ELSE \E r2 \in ByteAnswers(MiscBytes) :
                  IF ~r2.ok THEN get_capabilities(r1, r2, NoAnswer)
                  ELSE \E r3 \in Answers(ResolutionRecords) : get_capabilities(r1, r2, r3)

Spec == Init /\ [][Next]_vars

\* the device eventually answers a STATUS read with a zero upper nibble
LiveSpec ==
    Spec /\ WF_vars(\E r \in ByteAnswers(StatusReady) : r.ok /\ wait_normal_status(r))

-----------------------------------------------------------------------------
(* Properties                                                              *)

\* the transaction and the record of the get_point call that has just returned
PointRead == op = "get_point" /\ bus # <<>> /\ bus[1].ok
PointBuf == bus[1].data
\* the fields of byte 0 of a contact record, by arithmetic
XField(b0) == (b0 \div 16) % 8
YField(b0) == b0 % 16
ValidBit(b0) == b0 \div 128

\* C1 (as amended): for a contact record whose byte 0 has bit 7 set,
\* get_point returns the point with x = (bits 6..4 of byte 0) << 8 | byte 1
\* (the masked byte 0 shifted left by 4) and y = (bits 3..0 of byte 0) << 8 |
\* byte 2; the record D3 2A 77 decodes to x = 1322, y = 887.
C1_PointDecode ==
    (PointRead /\ ValidBit(PointBuf[1]) = 1) =>
        /\ result = Ok(Some([x |-> XField(PointBuf[1]) * 256 + PointBuf[2],
                             y |-> YField(PointBuf[1]) * 256 + PointBuf[3]]))
        /\ (PointBuf[1] = 211 /\ PointBuf[2] = 42 /\ PointBuf[3] = 119) =>
               result.val[1] = [x |-> 1322, y |-> 887]

C1_Witness ==
    /\ PointRead
    /\ PointBuf = <<211, 42, 119, 0>>
    /\ result = Ok(Some([x |-> 1322, y |-> 887]))

\* C1 (as claimed): x is the 3-bit field of bits 6..4 of byte 0 shifted left
\* by 4 and OR'd with byte 1, y is the 4-bit field of bits 3..0 shifted left
\* by 8 and OR'd with byte 2.
C1_Original ==
    (PointRead /\ ValidBit(PointBuf[1]) = 1) =>
        result = Ok(Some([x |-> BitOr(XField(PointBuf[1]) * 16, PointBuf[2]),
                          y |-> BitOr(YField(PointBuf[1]) * 256, PointBuf[3])]))

\* C3: the bus traffic of get_point(nth) is determined by nth alone: for
\* nth <= 9 exactly one transaction, writing the one byte 0x12 + 4*nth and
\* reading 4 bytes; for nth > 9 no transaction and the result Ok(None).
C3_PointTraffic ==
    op = "get_point" =>
        IF args[1] <= 9
        THEN /\ Len(bus) = 1
             /\ bus[1].wr = <<18 + 4 * args[1]>>
             /\ bus[1].len = 4
        ELSE /\ bus = <<>>
             /\ result = Ok(None)

C3_Witness ==
    op = "get_point" /\ args = <<9>> /\ Len(bus) = 1 /\ bus[1].wr = <<54>> /\ bus[1].ok

\* C4: a successfully read record whose byte 0 has bit 7 clear gives Ok(None)
\* whatever the other bits and bytes are, and a point is returned only when
\* bit 7 is set.
C4_EmptySlot ==
    PointRead =>
        /\ ValidBit(PointBuf[1]) = 0 => result = Ok(None)
        /\ (result.kind = "Ok" /\ result.val # None) => ValidBit(PointBuf[1]) = 1

C4_Witness ==
    /\ PointRead
    /\ PointBuf = <<127, 255, 0, 255>>
    /\ result = Ok(None)

\* the last transaction of the current call
Last == bus[Len(bus)]
UpperNibble(b) == b \div 16
Bit(b, n) == (b \div (2 ^ n)) % 2 = 1

\* C2: gesture decoding is total: whatever byte the advanced-touch-info
\* register returns, get_gesture_info returns a GestureInfo and never panics.
C2_GestureTotal ==
    (op = "get_gesture_info" /\ bus[1].ok) =>
        /\ pc # "panicked"
        /\ result.kind = "Ok"
        /\ result.val.gesture_type \in DOMAIN GestureType

\* C5: init() reads only STATUS (0x01, one byte per read), goes on only after
\* a read with a non-zero upper nibble, and returns success exactly at the
\* first read whose upper nibble is zero, whatever the lower nibble.
C5_InitPoll ==
    op = "init" =>
        /\ \A i \in 1 .. Len(bus) : bus[i].wr = <<1>> /\ bus[i].len = 1
        /\ \A i \in 1 .. Len(bus) - 1 : bus[i].ok /\ UpperNibble(bus[i].data[1]) # 0
        /\ result = Ok(Unit) <=> (Last.ok /\ UpperNibble(Last.data[1]) = 0)
        /\ result = Ok(Unit) => pc = "idle"

C5_Witness ==
    /\ op = "init"
    /\ Len(bus) = 3
    /\ bus[1].data = <<239>>
    /\ bus[2].data = <<16>>
    /\ bus[3].data = <<15>>
    /\ result = Ok(Unit)
    /\ pc = "idle"

\* C6: in every operation a failed bus transaction is the last one the
\* operation issues, and the operation returns exactly that bus error, with
\* no value; an error is returned only for a failed transaction.
C6_ErrorPropagation ==
    /\ \A i \in 1 .. Len(bus) :
          ~bus[i].ok => /\ i = Len(bus)
                        /\ pc = "idle"
                        /\ result = Err(bus[i].err)
    /\ result.kind = "Err" => (bus # <<>> /\ ~Last.ok /\ result.val = <<>>)

C6_Witness ==
    /\ op = "get_capabilities"
    /\ Len(bus) = 2
    /\ bus[1].ok
    /\ ~bus[2].ok
    /\ result = Err("ArbitrationLoss")

\* C7: get_capabilities reads 1 byte at 0x3F, 1 byte at 0xF0 and 3 bytes at
\* 0x04 in this order (all three when no read fails) and yields max_touches =
\* the byte at 0x3F, smart_wake_up = bit 7 of the byte at 0xF0 and (max_x,
\* max_y) = the (x, y) get_point decodes from the same bytes with bit 7 of
\* byte 0 set; bytes 10, 0x80, [1B 3C 9F] give 10, true, 316, 2975.
C7_Capabilities ==
    op = "get_capabilities" =>
        /\ Len(bus) \in 1 .. 3
        /\ bus[1].wr = <<63>> /\ bus[1].len = 1
        /\ Len(bus) >= 2 => (bus[2].wr = <<240>> /\ bus[2].len = 1)
        /\ Len(bus) >= 3 => (bus[3].wr = <<4>> /\ bus[3].len = 3)
        /\ Len(bus) < 3 => ~Last.ok
        /\ (Len(bus) = 3 /\ bus[3].ok) =>
              LET b == bus[3].data
                  p == PointResult(<<(b[1] % 128) + 128, b[2], b[3], 0>>).val[1]
              IN /\ result.kind = "Ok"
                 /\ result.val.max_touches = bus[1].data[1]
                 /\ result.val.smart_wake_up = Bit(bus[2].data[1], 7)
                 /\ result.val.max_x = p.x
                 /\ result.val.max_y = p.y
                 /\ (bus[1].data = <<10>> /\ bus[2].data = <<128>> /\ b = <<27, 60, 159>>) =>
                        result.val = [max_touches |-> 10, max_x |-> 316,
                                      max_y |-> 2975, smart_wake_up |-> TRUE]

C7_Witness ==
    /\ op = "get_capabilities"
    /\ Len(bus) = 3
    /\ bus[1].data = <<10>>
    /\ bus[2].data = <<128>>
    /\ bus[3].data = <<27, 60, 159>>
    /\ result = Ok([max_touches |-> 10, max_x |-> 316, max_y |-> 2975, smart_wake_up |-> TRUE])

\* the general rule of C8: one 1-byte read at 0x10; a low nibble in 0..12
\* gives the variant with that code, proximity = bit 6, water = bit 5
GestureRule ==
    op = "get_gesture_info" =>
        /\ Len(bus) = 1
        /\ bus[1].wr = <<16>>
        /\ bus[1].len = 1
        /\ (bus[1].ok /\ bus[1].data[1] % 16 <= 12) =>
              LET raw == bus[1].data[1] IN
              /\ result = Ok([gesture_type |-> GestureTable[(raw % 16) + 1],
                              proximity |-> Bit(raw, 6),
                              water |-> Bit(raw, 5)])
              /\ GestureType[result.val.gesture_type] = raw % 16

\* the call of C8's example: the register returned 0b0110_0101
GestureExample == op = "get_gesture_info" /\ bus[1].ok /\ bus[1].data[1] = 101

\* C8 (as amended): get_gesture_info issues exactly one transaction, a 1-byte
\* read at 0x10, and for a byte whose low nibble is in 0..12 yields the
\* variant with that code, proximity = bit 6 and water = bit 5, bits 7 and 4
\* having no effect; 0b0110_0101 (bits 6 and 5 both set) gives
\* SlideRightToLeft, proximity = true, water = true.
C8_GestureDecode ==
    /\ GestureRule
    /\ GestureExample =>
          result.val = [gesture_type |-> "SlideRightToLeft",
                        proximity |-> TRUE, water |-> TRUE]

C8_Witness ==
    /\ GestureExample
    /\ result = Ok([gesture_type |-> "SlideRightToLeft", proximity |-> TRUE, water |-> TRUE])

\* C8 (as claimed): the same rule, and 0b0110_0101 gives SlideRightToLeft,
\* proximity = true, water = false.
C8_Original ==
    /\ GestureRule
    /\ GestureExample =>
          result.val = [gesture_type |-> "SlideRightToLeft",
                        proximity |-> TRUE, water |-> FALSE]

\* init() has returned
InitReturned == op = "init" /\ pc = "idle"

\* C9: init() has returned exactly when its last STATUS read failed or had a
\* zero upper nibble; after a successful read with a non-zero upper nibble it
\* is still polling, and the next step of init is another STATUS read; and
\* when the device eventually answers with a zero upper nibble, init returns
\* (with success unless a read failed).
C9_InitTermination ==
    /\ [](op = "init" =>
            /\ pc \in {"idle", "polling"}
            /\ pc = "polling" <=> (Last.ok /\ UpperNibble(Last.data[1]) # 0))
    /\ [][pc = "polling" => (op' = "init" /\ Len(bus') = Len(bus) + 1
                             /\ bus'[Len(bus')].wr = <<1>>)]_vars
    /\ (pc = "polling") ~> (InitReturned /\ (result = Ok(Unit) \/ ~Last.ok))

C9_Witness ==
    /\ op = "init"
    /\ pc = "polling"
    /\ Len(bus) = MaxPolls
    /\ \A i \in 1 .. Len(bus) : bus[i].ok /\ UpperNibble(bus[i].data[1]) # 0

\* what each operation returns, from its argument and the bytes of its own
\* transactions
ExpectedResult ==
    IF bus # <<>> /\ ~Last.ok THEN Err(Last.err)
    ELSE CASE op = "init" ->
                 IF UpperNibble(Last.data[1]) = 0 THEN Ok(Unit) ELSE Pending
           [] op = "get_point" ->
                 IF bus = <<>> \/ ValidBit(PointBuf[1]) = 0 THEN Ok(None)
                 ELSE Ok(Some([x |-> XField(PointBuf[1]) * 256 + PointBuf[2],
                               y |-> YField(PointBuf[1]) * 256 + PointBuf[3]]))
           [] op = "get_gesture_info" ->
                 IF Last.data[1] % 16 > 12 THEN Panicked
                 ELSE Ok([gesture_type |-> GestureTable[(Last.data[1] % 16) + 1],
                          proximity |-> Bit(Last.data[1], 6),
                          water |-> Bit(Last.data[1], 5)])
           [] op = "get_sensor_count" ->
                 Ok(Last.data[1] * 256 + Last.data[2])
           [] op = "get_capabilities" ->
                 Ok([max_touches |-> bus[1].data[1],
                     max_x |-> XField(bus[3].data[1]) * 256 + bus[3].data[2],
                     max_y |-> YField(bus[3].data[1]) * 256 + bus[3].data[3],
                     smart_wake_up |-> Bit(bus[2].data[1], 7)])
           [] OTHER -> Pending

\* C10: construction issues no bus transaction; no operation changes the
\* stored address; every transaction targets the address given at
\* construction (0x55 for new_default), writes one byte and reads 1 to 4
\* bytes; and the result of an operation is a function of its argument and
\* of the bytes its own transactions returned.
C10_Stateless ==
    /\ bus = <<>>
    /\ [][addr' = addr /\ ctor' = ctor]_vars
    /\ [](/\ ctor = "new_default" => addr = 85
          /\ \A i \in 1 .. Len(bus) :
                /\ bus[i].addr = addr
                /\ Len(bus[i].wr) = 1
                /\ bus[i].len \in 1 .. 4
                /\ bus[i].ok => Len(bus[i].data) = bus[i].len
          /\ result = ExpectedResult)

C10_Witness ==
    /\ ctor = "new"
    /\ addr = 56
    /\ op = "get_sensor_count"
    /\ Len(bus) = 1
    /\ bus[1].addr = 56
    /\ bus[1].data = <<1, 44>>
    /\ result = Ok(300)

====
